---------------------------- MODULE Spec2Model ----------------------------
(***************************************************************************)
(* Model of the shared kernel of wowek2/traffic_main:                      *)
(*   src/src/shared_kernel/value_objects/bounding_box.py  (BoundingBox)    *)
(*   src/src/shared_kernel/result.py                      (Ok, Err)        *)
(*   src/src/detection_platform/ (YoloAdapter.detect, run_detection)       *)
(*                                                                         *)
(* Numbers.  The coordinates are Python floats.  The model computes with   *)
(* exact rationals <<n, d>> (d > 0, lowest terms).  Every input the model  *)
(* draws is a small integer or a small dyadic fraction, so every sum,      *)
(* difference, product and halving below is exact in IEEE-754 doubles too  *)
(* and the rational is the float the program holds.  The quotient of iou   *)
(* is kept as the exact rational and the power 0.5 of the distance         *)
(* methods is kept symbolically (the non-negative root of a rational).     *)
(* NaN, the infinities, overflow and underflow are outside the model.      *)
(***************************************************************************)
EXTENDS Integers, Sequences, FiniteSets, TLC

VARIABLES a, b, res, nops

vars == <<a, b, res, nops>>

(***************************************************************************)
(* Bounds of the model.                                                    *)
(***************************************************************************)
\* Largest integer coordinate handed to the constructor (the smallest is -1).
MaxCoord == 3
\* Longest chain of translate / scale / intersection calls on one instance.
MaxOps == 2
\* Largest integer coordinate of the argument of intersection in a chain.
MaxOther == 2
\* Largest integer coordinate of the two boxes of the two-box methods.
MaxPairCoord == 4

Coords == (0 - 1)..MaxCoord

(***************************************************************************)
(* Exact rational arithmetic standing for the float operators.             *)
(***************************************************************************)
Abs(n) == IF n < 0 THEN 0 - n ELSE n

RECURSIVE GCD(_, _)
GCD(m, n) == IF n = 0 THEN m ELSE GCD(n, m % n)

\* n / d in lowest terms with a positive denominator (d # 0).
Norm(n, d) ==
    LET s == IF d < 0 THEN 0 - 1 ELSE 1
        g == GCD(Abs(n), Abs(d))
    IN  <<(s * n) \div g, (s * d) \div g>>

R(i) == <<i, 1>>
Zero == R(0)
One == R(1)

\* p + q
RAdd(p, q) == Norm(p[1] * q[2] + q[1] * p[2], p[2] * q[2])
\* p - q
RSub(p, q) == Norm(p[1] * q[2] - q[1] * p[2], p[2] * q[2])
\* p * q
RMul(p, q) == Norm(p[1] * q[1], p[2] * q[2])
\* p / q, q # 0
RDiv(p, q) == Norm(p[1] * q[2], p[2] * q[1])
\* p < q, p <= q
RLt(p, q) == p[1] * q[2] < q[1] * p[2]
RLe(p, q) == p[1] * q[2] <= q[1] * p[2]
\* Python's max(p, q) and min(p, q): the first argument unless the second
\* is strictly greater (smaller).
RMax(p, q) == IF RLt(p, q) THEN q ELSE p
RMin(p, q) == IF RLt(q, p) THEN q ELSE p
\* x ** 2
Sq(p) == RMul(p, p)

\* A float result: a rational, or the irrational non-negative root of one.
Float(q) == [kind |-> "float", value |-> q]
IsSquare(n) == \E r \in 0..n : r * r = n
ISqrt(n) == CHOOSE r \in 0..n : r * r = n
\* x ** 0.5 for x >= 0: the exact root where it is rational, else symbolic.
PowHalf(q) ==
    IF IsSquare(q[1]) /\ IsSquare(q[2])
    THEN Float(<<ISqrt(q[1]), ISqrt(q[2])>>)
    ELSE [kind |-> "float", sqrt_of |-> q]
\* v == 0.0 and v > 0 for a float result v.
FloatIsZero(v) == v = Float(Zero)
FloatIsPositive(v) ==
    IF "value" \in DOMAIN v THEN RLt(Zero, v.value) ELSE RLt(Zero, v.sqrt_of)

(***************************************************************************)
(* Values an operation can yield.                                          *)
(***************************************************************************)
None == [kind |-> "None"]

\* An instance of the frozen dataclass: the four stored fields.
Instance(x1, y1, x2, y2) ==
    [kind |-> "BoundingBox", x1 |-> x1, y1 |-> y1, x2 |-> x2, y2 |-> y2]

\* raise InvalidBoundingBoxError(msg): which constraint, the offending values.
InvalidBoundingBoxError(constraint, values) ==
    [kind |-> "InvalidBoundingBoxError", constraint |-> constraint,
     values |-> values]

IsBox(v) == v.kind = "BoundingBox"
IsError(v) == v.kind = "InvalidBoundingBoxError"

(***************************************************************************)
(* BoundingBox.__init__ + __post_init__: validation in source order.       *)
(***************************************************************************)
\* The constructor with the sign checks moved ahead of the order checks.
BoundingBox_sign_checks_first(x1, y1, x2, y2) ==
    IF RLt(x1, Zero) THEN InvalidBoundingBoxError("x1 >= 0", <<x1>>)
    ELSE IF RLt(y1, Zero) THEN InvalidBoundingBoxError("y1 >= 0", <<y1>>)
    ELSE IF RLe(x2, x1) THEN InvalidBoundingBoxError("x1 < x2", <<x1, x2>>)
    ELSE IF RLe(y2, y1) THEN InvalidBoundingBoxError("y1 < y2", <<y1, y2>>)
    ELSE Instance(x1, y1, x2, y2)

BoundingBox(x1, y1, x2, y2) ==
    IF RLe(x2, x1) THEN InvalidBoundingBoxError("x1 < x2", <<x1, x2>>)
    ELSE IF RLe(y2, y1) THEN InvalidBoundingBoxError("y1 < y2", <<y1, y2>>)
    ELSE IF RLt(x1, Zero) THEN InvalidBoundingBoxError("x1 >= 0", <<x1>>)
    ELSE IF RLt(y1, Zero) THEN InvalidBoundingBoxError("y1 >= 0", <<y1>>)
    ELSE Instance(x1, y1, x2, y2)

\* BoundingBox.from_coordinates(coords)
from_coordinates(coords) ==
    LET x1 == coords[1]
        y1 == coords[2]
        x2 == coords[3]
        y2 == coords[4]
    IN  BoundingBox(x1, y1, x2, y2)

(***************************************************************************)
(* Properties.                                                             *)
(***************************************************************************)
width(self) == RSub(self.x2, self.x1)
height(self) == RSub(self.y2, self.y1)
area(self) == RMul(width(self), height(self))
center(self) ==
    LET center_x == RDiv(RAdd(self.x1, self.x2), R(2))
        center_y == RDiv(RAdd(self.y1, self.y2), R(2))
    IN  <<center_x, center_y>>

(***************************************************************************)
(* Geometric operations.                                                   *)
(***************************************************************************)
\* The quantities the variants of iou below are built from.
IouParts(self, other) ==
    LET inter_x1 == RMax(self.x1, other.x1)
        inter_y1 == RMax(self.y1, other.y1)
        inter_x2 == RMin(self.x2, other.x2)
        inter_y2 == RMin(self.y2, other.y2)
    IN  [x_empty |-> RLe(inter_x2, inter_x1),
         y_empty |-> RLe(inter_y2, inter_y1),
         inter |-> RMul(RSub(inter_x2, inter_x1), RSub(inter_y2, inter_y1)),
         self_area |-> RMul(RSub(self.x2, self.x1), RSub(self.y2, self.y1)),
         other_area |->
             RMul(RSub(other.x2, other.x1), RSub(other.y2, other.y1))]

IouQuotient(inter, union_area) ==
    IF union_area = Zero
    THEN [kind |-> "ZeroDivisionError"]
    ELSE Float(RDiv(inter, union_area))

\* iou subtracting the intersection area twice from the union.
iou_union_minus_twice(self, other) ==
    LET p == IouParts(self, other)
    IN  IF p.x_empty \/ p.y_empty THEN Float(Zero)
        ELSE IouQuotient(p.inter,
                 RSub(RSub(RAdd(p.self_area, p.other_area), p.inter),
                      p.inter))

\* iou taking self.area for both areas of the union.
iou_union_self_twice(self, other) ==
    LET p == IouParts(self, other)
    IN  IF p.x_empty \/ p.y_empty THEN Float(Zero)
        ELSE IouQuotient(p.inter,
                 RSub(RAdd(p.self_area, p.self_area), p.inter))

\* iou not subtracting the intersection area from the union.
iou_union_not_reduced(self, other) ==
    LET p == IouParts(self, other)
    IN  IF p.x_empty \/ p.y_empty THEN Float(Zero)
        ELSE IouQuotient(p.inter, RAdd(p.self_area, p.other_area))

\* iou returning 0.0 only when both axes are degenerate ("and" for "or").
iou_degenerate_on_both(self, other) ==
    LET p == IouParts(self, other)
    IN  IF p.x_empty /\ p.y_empty THEN Float(Zero)
        ELSE IouQuotient(p.inter,
                 RSub(RAdd(p.self_area, p.other_area), p.inter))

\* BoundingBox.iou(other); the division raises on a zero denominator.
iou(self, other) ==
    LET inter_x1 == RMax(self.x1, other.x1)
        inter_y1 == RMax(self.y1, other.y1)
        inter_x2 == RMin(self.x2, other.x2)
        inter_y2 == RMin(self.y2, other.y2)
        intersection_area ==
            RMul(RSub(inter_x2, inter_x1), RSub(inter_y2, inter_y1))
        union_area ==
            RSub(RAdd(area(self), area(other)), intersection_area)
    IN  IF RLe(inter_x2, inter_x1) \/ RLe(inter_y2, inter_y1)
        THEN Float(Zero)
        ELSE IF union_area = Zero
        THEN [kind |-> "ZeroDivisionError"]
        ELSE Float(RDiv(intersection_area, union_area))

\* intersection taking the larger of the two right edges.
intersection_max_x2(self, other) ==
    LET inter_x1 == RMax(self.x1, other.x1)
        inter_y1 == RMax(self.y1, other.y1)
        inter_x2 == RMax(self.x2, other.x2)
        inter_y2 == RMin(self.y2, other.y2)
    IN  IF RLe(inter_x2, inter_x1) \/ RLe(inter_y2, inter_y1)
        THEN None
        ELSE BoundingBox(inter_x1, inter_y1, inter_x2, inter_y2)

\* BoundingBox.intersection(other)
intersection(self, other) ==
    LET inter_x1 == RMax(self.x1, other.x1)
        inter_y1 == RMax(self.y1, other.y1)
        inter_x2 == RMin(self.x2, other.x2)
        inter_y2 == RMin(self.y2, other.y2)
    IN  IF RLe(inter_x2, inter_x1) \/ RLe(inter_y2, inter_y1)
        THEN None
        ELSE BoundingBox(inter_x1, inter_y1, inter_x2, inter_y2)

\* contains_point excluding the boundary (strict comparisons).
contains_point_exclusive(self, x, y) ==
    /\ RLt(self.x1, x) /\ RLt(x, self.x2)
    /\ RLt(self.y1, y) /\ RLt(y, self.y2)

\* BoundingBox.contains_point(x, y)
contains_point(self, x, y) ==
    /\ RLe(self.x1, x) /\ RLe(x, self.x2)
    /\ RLe(self.y1, y) /\ RLe(y, self.y2)

\* BoundingBox.contains_box(other)
contains_box(self, other) ==
    /\ RLe(self.x1, other.x1)
    /\ RLe(self.y1, other.y1)
    /\ RLe(other.x2, self.x2)
    /\ RLe(other.y2, self.y2)

\* overlaps with strict comparisons: boxes that only touch would overlap.
overlaps_strict(self, other) ==
    ~ \/ RLt(self.x2, other.x1)
      \/ RLt(other.x2, self.x1)
      \/ RLt(self.y2, other.y1)
      \/ RLt(other.y2, self.y1)

\* BoundingBox.overlaps(other)
overlaps(self, other) ==
    ~ \/ RLe(self.x2, other.x1)
      \/ RLe(other.x2, self.x1)
      \/ RLe(self.y2, other.y1)
      \/ RLe(other.y2, self.y1)

(***************************************************************************)
(* Transformation methods: each builds its result with the constructor.    *)
(***************************************************************************)
\* translate storing the shifted fields without running the validation.
translate_unvalidated(self, dx, dy) ==
    Instance(RAdd(self.x1, dx), RAdd(self.y1, dy),
             RAdd(self.x2, dx), RAdd(self.y2, dy))

\* translate shifting x2 by dy instead of dx.
translate_x2_by_dy(self, dx, dy) ==
    BoundingBox(RAdd(self.x1, dx), RAdd(self.y1, dy),
                RAdd(self.x2, dy), RAdd(self.y2, dy))

\* translate keeping the shifted low edges at zero instead of refusing them.
translate_clamped(self, dx, dy) ==
    BoundingBox(RMax(Zero, RAdd(self.x1, dx)), RMax(Zero, RAdd(self.y1, dy)),
                RAdd(self.x2, dx), RAdd(self.y2, dy))

\* BoundingBox.translate(dx, dy)
translate(self, dx, dy) ==
    BoundingBox(RAdd(self.x1, dx), RAdd(self.y1, dy),
                RAdd(self.x2, dx), RAdd(self.y2, dy))

\* The centre and the new half extents the variants of scale are built from.
ScaleParts(self, factor) ==
    [cx |-> RDiv(RAdd(self.x1, self.x2), R(2)),
     cy |-> RDiv(RAdd(self.y1, self.y2), R(2)),
     hw |-> RDiv(RMul(RSub(self.x2, self.x1), factor), R(2)),
     hh |-> RDiv(RMul(RSub(self.y2, self.y1), factor), R(2))]

\* scale without the max(0, .) on the low edges.
scale_unclamped(self, factor) ==
    LET p == ScaleParts(self, factor)
    IN  BoundingBox(RSub(p.cx, p.hw), RSub(p.cy, p.hh),
                    RAdd(p.cx, p.hw), RAdd(p.cy, p.hh))

\* scale taking width * factor for the new half width (no division by 2).
scale_half_not_halved(self, factor) ==
    LET p == ScaleParts(self, factor)
        w == RAdd(p.hw, p.hw)
        h == RAdd(p.hh, p.hh)
    IN  BoundingBox(RMax(Zero, RSub(p.cx, w)), RMax(Zero, RSub(p.cy, h)),
                    RAdd(p.cx, w), RAdd(p.cy, h))

\* scale keeping the scaled size when a low edge is clamped: the high edge
\* is the clamped low edge plus the full new extent.
scale_size_kept_on_clamp(self, factor) ==
    LET p == ScaleParts(self, factor)
        x1 == RMax(Zero, RSub(p.cx, p.hw))
        y1 == RMax(Zero, RSub(p.cy, p.hh))
    IN  BoundingBox(x1, y1, RAdd(x1, RAdd(p.hw, p.hw)),
                    RAdd(y1, RAdd(p.hh, p.hh)))

\* scale about the top-left corner instead of the centre.
scale_about_corner(self, factor) ==
    LET p == ScaleParts(self, factor)
    IN  BoundingBox(RMax(Zero, self.x1), RMax(Zero, self.y1),
                    RAdd(self.x1, RAdd(p.hw, p.hw)),
                    RAdd(self.y1, RAdd(p.hh, p.hh)))

\* BoundingBox.scale(factor)
scale(self, factor) ==
    LET center_x == center(self)[1]
        center_y == center(self)[2]
        new_half_width == RDiv(RMul(width(self), factor), R(2))
        new_half_height == RDiv(RMul(height(self), factor), R(2))
    IN  BoundingBox(RMax(Zero, RSub(center_x, new_half_width)),
                    RMax(Zero, RSub(center_y, new_half_height)),
                    RAdd(center_x, new_half_width),
                    RAdd(center_y, new_half_height))

(***************************************************************************)
(* Distance methods.                                                       *)
(***************************************************************************)
\* BoundingBox.center_distance(other)
center_distance(self, other) ==
    LET center_x1 == center(self)[1]
        center_y1 == center(self)[2]
        center_x2 == center(other)[1]
        center_y2 == center(other)[2]
    IN  PowHalf(RAdd(Sq(RSub(center_x2, center_x1)),
                     Sq(RSub(center_y2, center_y1))))

\* edge_distance without the 0 in the two max(...) calls.
edge_distance_no_clamp(self, other) ==
    LET dx == RMax(RSub(other.x1, self.x2), RSub(self.x1, other.x2))
        dy == RMax(RSub(other.y1, self.y2), RSub(self.y1, other.y2))
    IN  IF overlaps(self, other)
        THEN Float(Zero)
        ELSE PowHalf(RAdd(Sq(dx), Sq(dy)))

\* edge_distance adding the gaps without squaring them.
edge_distance_no_squares(self, other) ==
    LET dx == RMax(RMax(RSub(other.x1, self.x2), RSub(self.x1, other.x2)),
                   Zero)
        dy == RMax(RMax(RSub(other.y1, self.y2), RSub(self.y1, other.y2)),
                   Zero)
    IN  IF overlaps(self, other)
        THEN Float(Zero)
        ELSE PowHalf(RAdd(dx, dy))

\* BoundingBox.edge_distance(other)
edge_distance(self, other) ==
    LET dx == RMax(RMax(RSub(other.x1, self.x2), RSub(self.x1, other.x2)),
                   Zero)
        dy == RMax(RMax(RSub(other.y1, self.y2), RSub(self.y1, other.y2)),
                   Zero)
    IN  IF overlaps(self, other)
        THEN Float(Zero)
        ELSE PowHalf(RAdd(Sq(dx), Sq(dy)))

(***************************************************************************)
(* Inputs.                                                                 *)
(***************************************************************************)
\* The dx, dy offsets handed to translate.
Offsets == {R(0 - 1), R(0), R(1)}
\* The factors handed to scale: 0, 1/2, 1, 2 and -1.
Factors == {R(0), <<1, 2>>, R(1), R(2), R(0 - 1)}
\* Every instance the constructor yields on integer coordinates in 0..n.
BoxesUpTo(n) ==
    {v \in {BoundingBox(R(x1), R(y1), R(x2), R(y2)) :
                x1 \in 0..n, y1 \in 0..n, x2 \in 0..n, y2 \in 0..n} :
        IsBox(v)}
\* The instances handed to intersection as its argument in Spec.
OtherBoxes == BoxesUpTo(MaxOther)
\* The instances the two-box methods are applied to in SpecPair.
PairBoxes == BoxesUpTo(MaxPairCoord)

\* The x and y handed to contains_point.
Points == {R(i) : i \in 0..MaxPairCoord}

\* The record of one call: the method, its receiver, its arguments and
\* what it returned or raised.
Call(op, self, args, out) ==
    [op |-> op, self |-> self, args |-> args, out |-> out]
NoCall == Call("none", None, <<>>, None)

(***************************************************************************)
(* Specification Spec: the life of one instance.  a is the instance the    *)
(* scenario holds: made by a constructor call, then replaced by the result *)
(* of each transformation applied to it.  A call that raises (or returns   *)
(* None) yields no instance; a transformation that does so leaves the      *)
(* receiver, which is immutable, in place.  The model follows one instance *)
(* from its construction on: a constructor call is the first call of the   *)
(* scenario.  b is not used here.                                          *)
(***************************************************************************)
Init ==
    /\ a = None
    /\ b = None
    /\ res = NoCall
    /\ nops = 0

\* bbox = BoundingBox(x1=.., y1=.., x2=.., y2=..)
Construct ==
    /\ res = NoCall
    /\ \E x1 \in Coords, y1 \in Coords, x2 \in Coords, y2 \in Coords :
        LET out == BoundingBox(R(x1), R(y1), R(x2), R(y2))
        IN  /\ a' = IF IsBox(out) THEN out ELSE None
            /\ res' = Call("BoundingBox", None,
                            <<R(x1), R(y1), R(x2), R(y2)>>, out)
            /\ nops' = 0
            /\ UNCHANGED b

\* bbox = BoundingBox.from_coordinates((x1, y1, x2, y2))
FromCoordinates ==
    /\ res = NoCall
    /\ \E x1 \in Coords, y1 \in Coords, x2 \in Coords, y2 \in Coords :
        LET out == from_coordinates(<<R(x1), R(y1), R(x2), R(y2)>>)
        IN  /\ a' = IF IsBox(out) THEN out ELSE None
            /\ res' = Call("from_coordinates", None,
                            <<R(x1), R(y1), R(x2), R(y2)>>, out)
            /\ nops' = 0
            /\ UNCHANGED b

\* bbox = bbox.translate(dx, dy)
Translate ==
    /\ IsBox(a)
    /\ nops < MaxOps
    /\ \E dx \in Offsets, dy \in Offsets :
        LET out == translate(a, dx, dy)
        IN  /\ a' = IF IsBox(out) THEN out ELSE a
            /\ res' = Call("translate", a, <<dx, dy>>, out)
            /\ nops' = nops + 1
            /\ UNCHANGED b

\* bbox = bbox.scale(factor)
Scale ==
    /\ IsBox(a)
    /\ nops < MaxOps
    /\ \E factor \in Factors :
        LET out == scale(a, factor)
        IN  /\ a' = IF IsBox(out) THEN out ELSE a
            /\ res' = Call("scale", a, <<factor>>, out)
            /\ nops' = nops + 1
            /\ UNCHANGED b

\* bbox = bbox.intersection(other)
Intersect ==
    /\ IsBox(a)
    /\ nops < MaxOps
    /\ \E other \in OtherBoxes :
        LET out == intersection(a, other)
        IN  /\ a' = IF IsBox(out) THEN out ELSE a
            /\ res' = Call("intersection", a, <<other>>, out)
            /\ nops' = nops + 1
            /\ UNCHANGED b

Next ==
    \/ Construct
    \/ FromCoordinates
    \/ Translate
    \/ Scale
    \/ Intersect

Spec == Init /\ [][Next]_vars

(***************************************************************************)
(* Specification SpecPair: single calls on instances the constructor       *)
(* yields.  With two instances a and b each action is one call a.m(b) of a *)
(* two-box method; with a alone (b is None) each action is one call of a   *)
(* one-box method.  An instance is immutable: a call leaves a and b as     *)
(* they are and its outcome is recorded in res.                            *)
(***************************************************************************)
InitPair ==
    /\ a \in PairBoxes
    /\ b \in PairBoxes \cup {None}
    /\ res = NoCall
    /\ nops = 0

Iou ==
    /\ IsBox(b)
    /\ res' = Call("iou", a, <<b>>, iou(a, b))
    /\ UNCHANGED <<a, b, nops>>

Intersection ==
    /\ IsBox(b)
    /\ res' = Call("intersection", a, <<b>>, intersection(a, b))
    /\ UNCHANGED <<a, b, nops>>

Overlaps ==
    /\ IsBox(b)
    /\ res' = Call("overlaps", a, <<b>>, overlaps(a, b))
    /\ UNCHANGED <<a, b, nops>>

ContainsBox ==
    /\ IsBox(b)
    /\ res' = Call("contains_box", a, <<b>>, contains_box(a, b))
    /\ UNCHANGED <<a, b, nops>>

CenterDistance ==
    /\ IsBox(b)
    /\ res' = Call("center_distance", a, <<b>>, center_distance(a, b))
    /\ UNCHANGED <<a, b, nops>>

EdgeDistance ==
    /\ IsBox(b)
    /\ res' = Call("edge_distance", a, <<b>>, edge_distance(a, b))
    /\ UNCHANGED <<a, b, nops>>

\* a.contains_point(x, y)
ContainsPoint ==
    /\ b = None
    /\ \E x \in Points, y \in Points :
        res' = Call("contains_point", a, <<x, y>>, contains_point(a, x, y))
    /\ UNCHANGED <<a, b, nops>>

\* a.translate(dx, dy)
TranslateCall ==
    /\ b = None
    /\ \E dx \in Offsets, dy \in Offsets :
        res' = Call("translate", a, <<dx, dy>>, translate(a, dx, dy))
    /\ UNCHANGED <<a, b, nops>>

\* a.scale(factor)
ScaleCall ==
    /\ b = None
    /\ \E factor \in Factors :
        res' = Call("scale", a, <<factor>>, scale(a, factor))
    /\ UNCHANGED <<a, b, nops>>

NextPair ==
    \/ Iou
    \/ Intersection
    \/ Overlaps
    \/ ContainsBox
    \/ CenterDistance
    \/ EdgeDistance
    \/ ContainsPoint
    \/ TranslateCall
    \/ ScaleCall

SpecPair == InitPair /\ [][NextPair]_vars

(***************************************************************************)
(* Vocabulary of the claims, stated on coordinates alone.                  *)
(***************************************************************************)
\* The four construction invariants on a 4-tuple of coordinates.
ValidCoords(c) ==
    /\ RLt(c[1], c[3])
    /\ RLt(c[2], c[4])
    /\ RLe(Zero, c[1])
    /\ RLe(Zero, c[2])

CoordsOf(v) == <<v.x1, v.y1, v.x2, v.y2>>

\* The two boxes have a region of positive area in common.
ShareArea(p, q) ==
    /\ RLt(p.x1, q.x2) /\ RLt(q.x1, p.x2)
    /\ RLt(p.y1, q.y2) /\ RLt(q.y1, p.y2)

\* A gap of positive width separates the two boxes on some axis.
Separated(p, q) ==
    \/ RLt(p.x2, q.x1) \/ RLt(q.x2, p.x1)
    \/ RLt(p.y2, q.y1) \/ RLt(q.y2, p.y1)

\* The boxes share boundary points but no area: an edge or a corner.
Touching(p, q) == ~ShareArea(p, q) /\ ~Separated(p, q)

\* The larger / smaller of two numbers, as numbers.
Larger(p, q) == IF RLe(p, q) THEN q ELSE p
Smaller(p, q) == IF RLe(p, q) THEN p ELSE q

\* The per-axis gaps max(other.x1 - self.x2, self.x1 - other.x2, 0).
GapX(p, q) == Larger(Larger(RSub(q.x1, p.x2), RSub(p.x1, q.x2)), Zero)
GapY(p, q) == Larger(Larger(RSub(q.y1, p.y2), RSub(p.y1, q.y2)), Zero)

\* The coordinates the call recorded in c hands to the constructor.
WouldBe(c) ==
    IF c.op \in {"BoundingBox", "from_coordinates"} THEN c.args
    ELSE IF c.op = "translate"
    THEN <<RAdd(c.self.x1, c.args[1]), RAdd(c.self.y1, c.args[2]),
           RAdd(c.self.x2, c.args[1]), RAdd(c.self.y2, c.args[2])>>
    ELSE IF c.op = "scale"
    THEN LET cx == RDiv(RAdd(c.self.x1, c.self.x2), R(2))
             cy == RDiv(RAdd(c.self.y1, c.self.y2), R(2))
             hw == RDiv(RMul(RSub(c.self.x2, c.self.x1), c.args[1]), R(2))
             hh == RDiv(RMul(RSub(c.self.y2, c.self.y1), c.args[1]), R(2))
         IN  <<Larger(Zero, RSub(cx, hw)), Larger(Zero, RSub(cy, hh)),
               RAdd(cx, hw), RAdd(cy, hh)>>
    ELSE <<Larger(c.self.x1, c.args[1].x1), Larger(c.self.y1, c.args[1].y1),
           Smaller(c.self.x2, c.args[1].x2), Smaller(c.self.y2, c.args[1].y2)>>

(***************************************************************************)
(* C1.  Every BoundingBox instance that exists after any sequence of       *)
(* constructor, from_coordinates, translate, scale and intersection calls  *)
(* satisfies x1 < x2, y1 < y2, x1 >= 0 and y1 >= 0; a constructor,         *)
(* translate or scale call whose coordinates would violate one of them     *)
(* raises InvalidBoundingBoxError, and intersection yields a valid         *)
(* instance or None.                                                       *)
(***************************************************************************)
C1_EveryInstanceValid ==
    /\ IsBox(a) => ValidCoords(CoordsOf(a))
    /\ IsBox(res.self) => ValidCoords(CoordsOf(res.self))
    /\ IsBox(res.out) => ValidCoords(CoordsOf(res.out))
    /\ res.op \in {"BoundingBox", "from_coordinates", "translate", "scale"}
          => /\ IsBox(res.out) \/ IsError(res.out)
             /\ ~ValidCoords(WouldBe(res)) => IsError(res.out)
    /\ res.op = "intersection" => IsBox(res.out) \/ res.out = None

\* A chain of MaxOps calls whose last call, a translate, was refused
\* because it would have moved x1 below zero.
C1_Witness ==
    /\ res.op = "translate"
    /\ nops = MaxOps
    /\ IsError(res.out)
    /\ res.out.constraint = "x1 >= 0"
    /\ IsBox(a)

(***************************************************************************)
(* C2.  Construction from (x1, y1, x2, y2) succeeds, storing the four      *)
(* fields unchanged, iff x1 < x2, y1 < y2, x1 >= 0 and y1 >= 0; otherwise  *)
(* it raises InvalidBoundingBoxError for the first violated constraint in  *)
(* the order x1 < x2, y1 < y2, x1 >= 0, y1 >= 0; from_coordinates has the  *)
(* same outcome for the same 4-tuple.                                      *)
(***************************************************************************)
C2_Expected(c) ==
    IF ~RLt(c[1], c[3]) THEN "x1 < x2"
    ELSE IF ~RLt(c[2], c[4]) THEN "y1 < y2"
    ELSE IF ~RLe(Zero, c[1]) THEN "x1 >= 0"
    ELSE IF ~RLe(Zero, c[2]) THEN "y1 >= 0"
    ELSE "ok"

C2_ConstructionOutcome ==
    res.op \in {"BoundingBox", "from_coordinates"} =>
        /\ IsBox(res.out) <=> ValidCoords(res.args)
        /\ IsBox(res.out) => CoordsOf(res.out) = res.args /\ a = res.out
        /\ ~IsBox(res.out) =>
              /\ IsError(res.out)
              /\ res.out.constraint = C2_Expected(res.args)
              /\ a = None

\* from_coordinates refused a tuple that violates x1 < x2, x1 >= 0 and
\* y1 >= 0 at once, naming x1 < x2.
C2_Witness ==
    /\ res.op = "from_coordinates"
    /\ IsError(res.out)
    /\ res.out.constraint = "x1 < x2"
    /\ res.args[1] = R(0 - 1)
    /\ res.args[2] = R(0 - 1)
    /\ res.args[3] = R(0 - 1)

\* The receiver and the argument of the recorded two-box call.
Self == res.self
Other == res.args[1]

\* Area of a box and of the region two boxes share (0 if none).
BoxArea(p) == RMul(RSub(p.x2, p.x1), RSub(p.y2, p.y1))
SharedArea(p, q) ==
    IF ShareArea(p, q)
    THEN RMul(RSub(Smaller(p.x2, q.x2), Larger(p.x1, q.x1)),
              RSub(Smaller(p.y2, q.y2), Larger(p.y1, q.y1)))
    ELSE Zero

(***************************************************************************)
(* C3 as stated.  For all valid boxes a and b, edge_distance(a, b) == 0.0  *)
(* if and only if overlaps(a, b) is True.                                  *)
(***************************************************************************)
C3_ZeroIffOverlaps ==
    res.op = "edge_distance" =>
        (FloatIsZero(res.out) <=> overlaps(Self, Other))

(***************************************************************************)
(* C3 as amended.  For all valid boxes a and b, edge_distance(a, b) == 0.0 *)
(* if and only if no gap separates them on either axis, that is, iff they  *)
(* overlap or touch along an edge or at a corner; overlaps(a, b) implies   *)
(* edge_distance(a, b) == 0.0 but not conversely.                          *)
(***************************************************************************)
C3_ZeroIffNoGap ==
    res.op = "edge_distance" =>
        /\ FloatIsZero(res.out) <=> ~Separated(Self, Other)
        /\ overlaps(Self, Other) => FloatIsZero(res.out)

\* edge_distance returned 0.0 for two boxes that touch along a vertical
\* edge and do not overlap.
C3_Witness ==
    /\ res.op = "edge_distance"
    /\ FloatIsZero(res.out)
    /\ ~overlaps(Self, Other)
    /\ Self.x2 = Other.x1
    /\ RLt(Self.y1, Other.y2)
    /\ RLt(Other.y1, Self.y2)

(***************************************************************************)
(* C4.  For two valid boxes that share only boundary (an edge or a corner, *)
(* no area) edge_distance returns 0.0; for boxes separated by a gap it is  *)
(* the Pythagorean combination of the per-axis gaps                        *)
(* max(other.x1 - self.x2, self.x1 - other.x2, 0) and the analogous y gap, *)
(* and is strictly positive.                                               *)
(***************************************************************************)
C4_EdgeDistanceValue ==
    res.op = "edge_distance" =>
        /\ Touching(Self, Other) => FloatIsZero(res.out)
        /\ Separated(Self, Other) =>
              /\ res.out = PowHalf(RAdd(Sq(GapX(Self, Other)),
                                         Sq(GapY(Self, Other))))
              /\ FloatIsPositive(res.out)

\* edge_distance of two boxes separated on both axes (a diagonal gap).
C4_Witness ==
    /\ res.op = "edge_distance"
    /\ RLt(Zero, GapX(Self, Other))
    /\ RLt(Zero, GapY(Self, Other))
    /\ FloatIsPositive(res.out)

(***************************************************************************)
(* C5.  For all valid boxes a and b, intersection(a, b) is None exactly    *)
(* when overlaps(a, b) is False, edge- and corner-touching boxes included. *)
(***************************************************************************)
C5_NoneIffNotOverlaps ==
    /\ res.op = "intersection" =>
          (res.out = None <=> ~overlaps(Self, Other))
    /\ res.op = "overlaps" =>
          (res.out = FALSE <=> intersection(Self, Other) = None)

\* intersection returned None for two boxes that touch at a corner.
C5_Witness ==
    /\ res.op = "intersection"
    /\ res.out = None
    /\ Self.x2 = Other.x1
    /\ Self.y2 = Other.y1

(***************************************************************************)
(* C6.  For all valid boxes a and b, intersection(a, b) never raises: when *)
(* the boxes share area it returns the box (max(a.x1, b.x1),               *)
(* max(a.y1, b.y1), min(a.x2, b.x2), min(a.y2, b.y2)), which passes the    *)
(* constructor's validation and is contained (contains_box) in both.       *)
(***************************************************************************)
C6_IntersectionBox ==
    res.op = "intersection" =>
        /\ ~IsError(res.out)
        /\ ShareArea(Self, Other) =>
              /\ IsBox(res.out)
              /\ CoordsOf(res.out) =
                    <<Larger(Self.x1, Other.x1), Larger(Self.y1, Other.y1),
                      Smaller(Self.x2, Other.x2), Smaller(Self.y2, Other.y2)>>
              /\ ValidCoords(CoordsOf(res.out))
              /\ contains_box(Self, res.out)
              /\ contains_box(Other, res.out)

\* intersection returned a box that is neither of the two operands.
C6_Witness ==
    /\ res.op = "intersection"
    /\ IsBox(res.out)
    /\ res.out # Self
    /\ res.out # Other

(***************************************************************************)
(* C7.  For all valid boxes a and b, iou(a, b) lies in [0, 1]: the         *)
(* intersection area never exceeds either box's area, so the union         *)
(* denominator is positive and at least the intersection area.             *)
(***************************************************************************)
C7_IouInUnitInterval ==
    res.op = "iou" =>
        LET inter == SharedArea(Self, Other)
            union == RSub(RAdd(BoxArea(Self), BoxArea(Other)), inter)
        IN  /\ res.out.kind = "float"
            /\ RLe(Zero, res.out.value)
            /\ RLe(res.out.value, One)
            /\ RLe(inter, BoxArea(Self))
            /\ RLe(inter, BoxArea(Other))
            /\ RLt(Zero, union)
            /\ RLe(inter, union)
            /\ ShareArea(Self, Other) => res.out.value = RDiv(inter, union)

\* iou strictly between 0 and 1 for a box inside a larger one.
C7_Witness ==
    /\ res.op = "iou"
    /\ RLt(Zero, res.out.value)
    /\ RLt(res.out.value, One)
    /\ contains_box(Self, Other)

(***************************************************************************)
(* C8.  iou is symmetric: for all valid boxes a and b,                     *)
(* iou(a, b) == iou(b, a).                                                 *)
(***************************************************************************)
C8_IouSymmetric ==
    res.op = "iou" => res.out = iou(Other, Self)

\* iou of two overlapping boxes of different areas.
C8_Witness ==
    /\ res.op = "iou"
    /\ ShareArea(Self, Other)
    /\ BoxArea(Self) # BoxArea(Other)
    /\ ~contains_box(Self, Other)
    /\ ~contains_box(Other, Self)

(***************************************************************************)
(* C9.  For every valid box a, iou(a, a) == 1.0, also for a separately     *)
(* constructed box with identical coordinates.                             *)
(***************************************************************************)
C9_IouOfItself ==
    res.op = "iou" /\ CoordsOf(Self) = CoordsOf(Other) =>
        res.out = Float(One)

\* iou of two separately drawn boxes with the same coordinates.
C9_Witness ==
    /\ res.op = "iou"
    /\ a = b
    /\ Self = a
    /\ Other = b
    /\ res.out = Float(One)

(***************************************************************************)
(* C10.  For all valid boxes a and b that are disjoint or merely touch at  *)
(* an edge or corner, iou(a, b) returns exactly 0.0 (not an error);        *)
(* conversely iou(a, b) > 0 whenever overlaps(a, b) is True.               *)
(***************************************************************************)
C10_IouZeroOrPositive ==
    res.op = "iou" =>
        /\ Separated(Self, Other) \/ Touching(Self, Other) =>
              res.out = Float(Zero)
        /\ overlaps(Self, Other) =>
              res.out.kind = "float" /\ RLt(Zero, res.out.value)

\* iou returned 0.0 for two boxes that touch along a horizontal edge.
C10_Witness ==
    /\ res.op = "iou"
    /\ res.out = Float(Zero)
    /\ Self.y2 = Other.y1
    /\ RLt(Self.x1, Other.x2)
    /\ RLt(Other.x1, Self.x2)

\* Width, height and centre of a box, on its coordinates.
BoxWidth(p) == RSub(p.x2, p.x1)
BoxHeight(p) == RSub(p.y2, p.y1)
BoxCenter(p) ==
    <<RDiv(RAdd(p.x1, p.x2), R(2)), RDiv(RAdd(p.y1, p.y2), R(2))>>

\* The low edges the recorded scale call computes before clamping.
LowX(c) ==
    RSub(BoxCenter(c.self)[1],
         RDiv(RMul(BoxWidth(c.self), c.args[1]), R(2)))
LowY(c) ==
    RSub(BoxCenter(c.self)[2],
         RDiv(RMul(BoxHeight(c.self), c.args[1]), R(2)))

(***************************************************************************)
(* C11 as stated.  For every valid box b and all offsets dx, dy,           *)
(* translate(dx, dy) returns a box whose width equals b.width and whose    *)
(* height equals b.height, with all four coordinates shifted by the same   *)
(* offset.                                                                 *)
(***************************************************************************)
C11_TranslateReturnsShiftedBox ==
    res.op = "translate" =>
        /\ IsBox(res.out)
        /\ CoordsOf(res.out) = WouldBe(res)
        /\ width(res.out) = width(res.self)
        /\ height(res.out) = height(res.self)

(***************************************************************************)
(* C11 as amended.  For every valid box b and all offsets dx, dy with      *)
(* b.x1 + dx >= 0 and b.y1 + dy >= 0, translate(dx, dy) returns a box with *)
(* the coordinates (x1 + dx, y1 + dy, x2 + dx, y2 + dy), whose width and   *)
(* height are those of b; for every other offset it returns no box but     *)
(* raises InvalidBoundingBoxError.                                         *)
(***************************************************************************)
C11_TranslatePreservesSize ==
    res.op = "translate" =>
        /\ IsBox(res.out) <=>
              RLe(Zero, WouldBe(res)[1]) /\ RLe(Zero, WouldBe(res)[2])
        /\ IsBox(res.out) =>
              /\ CoordsOf(res.out) = WouldBe(res)
              /\ width(res.out) = width(res.self)
              /\ height(res.out) = height(res.self)
        /\ ~IsBox(res.out) => IsError(res.out)

\* translate by different non-zero offsets on the two axes returned a box.
C11_Witness ==
    /\ res.op = "translate"
    /\ IsBox(res.out)
    /\ res.args[1] = R(1)
    /\ res.args[2] = R(0 - 1)

(***************************************************************************)
(* C12 as stated.  translate does not re-validate the construction         *)
(* invariants: translating a valid box by an offset that drives x1 or y1   *)
(* below zero returns the shifted box rather than failing with             *)
(* InvalidBoundingBoxError.                                                *)
(***************************************************************************)
C12_TranslateBelowZeroReturnsBox ==
    /\ res.op = "translate"
    /\ RLt(WouldBe(res)[1], Zero) \/ RLt(WouldBe(res)[2], Zero)
    => /\ IsBox(res.out)
       /\ CoordsOf(res.out) = WouldBe(res)

(***************************************************************************)
(* C12 as amended.  translate re-validates the construction invariants     *)
(* (it builds its result with the validating constructor): translating a   *)
(* valid box by an offset that drives x1 or y1 below zero fails with       *)
(* InvalidBoundingBoxError, naming x1 >= 0 if x1 + dx < 0 and otherwise    *)
(* y1 >= 0, and returns no box; the receiver is unchanged.                 *)
(***************************************************************************)
C12_TranslateBelowZeroRaises ==
    /\ res.op = "translate"
    /\ RLt(WouldBe(res)[1], Zero) \/ RLt(WouldBe(res)[2], Zero)
    => /\ IsError(res.out)
       /\ res.out.constraint =
             IF RLt(WouldBe(res)[1], Zero) THEN "x1 >= 0" ELSE "y1 >= 0"
       /\ a = res.self

\* translate refused an offset that moves only y1 below zero.
C12_Witness ==
    /\ res.op = "translate"
    /\ IsError(res.out)
    /\ res.out.constraint = "y1 >= 0"
    /\ res.args[1] = Zero
    /\ a = res.self

(***************************************************************************)
(* C13.  Whether the recorded call completed without raising.              *)
(***************************************************************************)
Completed(c) ==
    IF c.op \in {"overlaps", "contains_box", "contains_point"}
    THEN c.out \in BOOLEAN
    ELSE IF c.op \in {"iou", "center_distance", "edge_distance"}
    THEN c.out.kind = "float"
    ELSE IF c.op = "intersection"
    THEN IsBox(c.out) \/ c.out = None
    ELSE IsBox(c.out)

C15_ScaleClampsLowEdgesOnly ==
    res.op = "scale" /\ RLt(Zero, res.args[1]) =>
        /\ IsBox(res.out)
        /\ CoordsOf(res.out) = WouldBe(res)
        /\ res.out.x2 =
              RAdd(BoxCenter(res.self)[1],
                   RDiv(RMul(BoxWidth(res.self), res.args[1]), R(2)))
        /\ res.out.y2 =
              RAdd(BoxCenter(res.self)[2],
                   RDiv(RMul(BoxHeight(res.self), res.args[1]), R(2)))
        /\ RLt(LowX(res), Zero) =>
              /\ res.out.x1 = Zero
              /\ RLt(BoxWidth(res.out),
                      RMul(BoxWidth(res.self), res.args[1]))
              /\ BoxCenter(res.out)[1] # BoxCenter(res.self)[1]
        /\ RLt(LowY(res), Zero) =>
              /\ res.out.y1 = Zero
              /\ RLt(BoxHeight(res.out),
                      RMul(BoxHeight(res.self), res.args[1]))
              /\ BoxCenter(res.out)[2] # BoxCenter(res.self)[2]

\* The box (0, 0, 2, 2) scaled by 2 has width 3, not 4 (the source's test
\* has (0, 0, 10, 10) scaled by 2 with width 15).
C15_Witness ==
    /\ res.op = "scale"
    /\ res.args[1] = R(2)
    /\ res.self = Instance(R(0), R(0), R(2), R(2))
    /\ IsBox(res.out)
    /\ BoxWidth(res.out) = R(3)

OnBoundary(p, x, y) ==
    \/ /\ x \in {p.x1, p.x2}
       /\ RLe(p.y1, y) /\ RLe(y, p.y2)
    \/ /\ y \in {p.y1, p.y2}
       /\ RLe(p.x1, x) /\ RLe(x, p.x2)

\* The point lies strictly inside / strictly outside the box.
StrictlyInside(p, x, y) ==
    /\ RLt(p.x1, x) /\ RLt(x, p.x2)
    /\ RLt(p.y1, y) /\ RLt(y, p.y2)
Outside(p, x, y) ==
    \/ RLt(x, p.x1) \/ RLt(p.x2, x)
    \/ RLt(y, p.y1) \/ RLt(p.y2, y)

\* Some side of q lies beyond the corresponding side of p.
SticksOut(p, q) ==
    \/ RLt(q.x1, p.x1) \/ RLt(p.x2, q.x2)
    \/ RLt(q.y1, p.y1) \/ RLt(p.y2, q.y2)

\* The boxes share area and each has a side beyond the other's.
PartialOverlap(p, q) ==
    ShareArea(p, q) /\ SticksOut(p, q) /\ SticksOut(q, p)

C17_ContainmentInclusive ==
    /\ res.op = "contains_box" =>
          /\ res.out <=>
                /\ contains_point(Self, Other.x1, Other.y1)
                /\ contains_point(Self, Other.x2, Other.y2)
          /\ Self = Other => res.out
          /\ PartialOverlap(Self, Other) =>
                ~res.out /\ ~contains_box(Other, Self)
    /\ res.op = "contains_point" =>
          /\ OnBoundary(res.self, res.args[1], res.args[2]) => res.out
          /\ StrictlyInside(res.self, res.args[1], res.args[2]) => res.out
          /\ Outside(res.self, res.args[1], res.args[2]) => ~res.out

\* contains_point answered True for the corner (x2, y1) of the box.
C17_Witness ==
    /\ res.op = "contains_point"
    /\ res.args[1] = res.self.x2
    /\ res.args[2] = res.self.y1
    /\ res.out = TRUE

(***************************************************************************)
(* The Result monad: src/src/shared_kernel/result.py (classes Ok and Err). *)
(*                                                                         *)
(* A payload is an int or a str, kept apart as PyInt(n) and PyStr(s).      *)
(* A callback is named and Apply gives what it returns; every method reports *)
(* the invocations of its callback, in order, next to what it returns (or  *)
(* the exception it raises) and to the receiver as the call leaves it.     *)
(***************************************************************************)
\* Largest absolute value of the int payload an Ok is constructed with.
MaxValue == 2
\* Longest chain of method calls that starts from one constructed Result.
MaxChain == 3

PyInt(n) == [kind |-> "int", n |-> n]
PyStr(s) == [kind |-> "str", s |-> s]
PyBool(v) == [kind |-> "bool", b |-> v]

\* str(x), as the f-strings of the messages format a payload.
StrOf(x) == IF x.kind = "int" THEN ToString(x.n) ELSE x.s

\* Ok(value) and Err(error): frozen dataclasses with the one field.
Ok(value) == [kind |-> "Ok", value |-> value]
Err(error) == [kind |-> "Err", error |-> error]
IsResult(v) == v.kind \in {"Ok", "Err"}

ValueError(message) == [kind |-> "ValueError", message |-> message]
AttributeError(obj, name) ==
    [kind |-> "AttributeError", obj |-> obj, name |-> name]
IsRaised(v) == v.kind \in {"ValueError", "AttributeError"}

\* The callbacks handed to the methods, and what each returns.
Apply(fn, x) ==
    CASE fn = "double" -> PyInt(x.n * 2)
      [] fn = "increment" -> PyInt(x.n + 1)
      [] fn = "new_error" -> PyStr("New error")
      [] fn = "err" -> PyStr("Err")
      [] fn = "zero" -> PyInt(0)
      [] fn = "len" -> PyInt(Len(x.s))
      [] fn = "validation" ->
            IF x.n > 0 THEN Ok(x) ELSE Err(PyStr("Negative"))
      [] fn = "ok_increment" -> Ok(PyInt(x.n + 1))
      [] fn = "too_big" -> Err(PyStr("Too big"))
      [] fn = "recover" -> Ok(PyInt(0))
      [] fn = "critical" -> Err(PyStr("Critical failure"))
      [] fn = "spy" -> None

\* What a call leaves behind: the value returned or the exception raised,
\* the invocations <<fn, argument>> of the callback, and the receiver.
Outcome(ret, calls, self) == [ret |-> ret, calls |-> calls, self |-> self]

\* class Ok
Ok_is_ok(self) == Outcome(PyBool(TRUE), <<>>, self)
Ok_is_err(self) == Outcome(PyBool(FALSE), <<>>, self)
Ok_unwrap(self) == Outcome(self.value, <<>>, self)
Ok_unwrap_err(self) ==
    Outcome(ValueError("Called unwrap_err on Ok: " \o StrOf(self.value)),
            <<>>, self)
Ok_unwrap_or(self, default) == Outcome(self.value, <<>>, self)
Ok_unwrap_or_else(self, fn) == Outcome(self.value, <<>>, self)
Ok_expect(self, msg) == Outcome(self.value, <<>>, self)
\* Ok.map rebinding the receiver's value instead of building a new Ok.
Ok_map_in_place(self, fn) ==
    Outcome(Ok(Apply(fn, self.value)), <<<<fn, self.value>>>>,
            Ok(Apply(fn, self.value)))
Ok_map(self, fn) ==
    Outcome(Ok(Apply(fn, self.value)), <<<<fn, self.value>>>>, self)
Ok_map_err(self, fn) == Outcome(self, <<>>, self)
Ok_flat_map(self, fn) ==
    Outcome(Apply(fn, self.value), <<<<fn, self.value>>>>, self)
Ok_or_else(self, fn) == Outcome(self, <<>>, self)
Ok_inspect(self, fn) == Outcome(self, <<<<fn, self.value>>>>, self)
Ok_inspect_err(self, fn) == Outcome(self, <<>>, self)

\* class Err
Err_is_ok(self) == Outcome(PyBool(FALSE), <<>>, self)
Err_is_err(self) == Outcome(PyBool(TRUE), <<>>, self)
Err_unwrap(self) ==
    Outcome(ValueError("Called unwrap on Err value: " \o StrOf(self.error)),
            <<>>, self)
Err_unwrap_err(self) == Outcome(self.error, <<>>, self)
Err_unwrap_or(self, default) == Outcome(default, <<>>, self)
\* Err.unwrap_or_else invoking fn a second time for the value it returns.
Err_unwrap_or_else_twice(self, fn) ==
    Outcome(Apply(fn, self.error),
            <<<<fn, self.error>>, <<fn, self.error>>>>, self)
Err_unwrap_or_else(self, fn) ==
    Outcome(Apply(fn, self.error), <<<<fn, self.error>>>>, self)
\* Err.expect raising with the error alone, the custom message dropped.
Err_expect_without_msg(self, msg) ==
    Outcome(ValueError(StrOf(self.error)), <<>>, self)
Err_expect(self, msg) ==
    Outcome(ValueError(msg \o ": " \o StrOf(self.error)), <<>>, self)
\* Err.map invoking fn on the error before it returns self.
Err_map_calls_fn(self, fn) == Outcome(self, <<<<fn, self.error>>>>, self)
Err_map(self, fn) == Outcome(self, <<>>, self)
\* Err.map_err wrapping what fn returned in Ok instead of Err.
Err_map_err_unwrapped(self, fn) ==
    Outcome(Ok(Apply(fn, self.error)), <<<<fn, self.error>>>>, self)
Err_map_err(self, fn) ==
    Outcome(Err(Apply(fn, self.error)), <<<<fn, self.error>>>>, self)
\* Err.flat_map invoking fn on the error and returning another failure.
Err_flat_map_calls_fn(self, fn) ==
    Outcome(Apply("critical", self.error), <<<<fn, self.error>>>>, self)
Err_flat_map(self, fn) == Outcome(self, <<>>, self)
Err_or_else(self, fn) ==
    Outcome(Apply(fn, self.error), <<<<fn, self.error>>>>, self)
\* Err.inspect evaluates fn(self.value): an Err has the one slot `error`, so
\* reading `value` raises before fn is called.
Err_inspect(self, fn) ==
    IF "value" \in DOMAIN self
    THEN Outcome(self, <<<<fn, self.value>>>>, self)
    ELSE Outcome(AttributeError("Err", "value"), <<>>, self)
\* Err.inspect_err returns self; its body never calls fn.
Err_inspect_err(self, fn) == Outcome(self, <<>>, self)

\* A method call on a Result runs the method of the receiver's class.
is_ok(self) == IF self.kind = "Ok" THEN Ok_is_ok(self) ELSE Err_is_ok(self)
is_err(self) ==
    IF self.kind = "Ok" THEN Ok_is_err(self) ELSE Err_is_err(self)
unwrap(self) ==
    IF self.kind = "Ok" THEN Ok_unwrap(self) ELSE Err_unwrap(self)
unwrap_err(self) ==
    IF self.kind = "Ok" THEN Ok_unwrap_err(self) ELSE Err_unwrap_err(self)
unwrap_or(self, default) ==
    IF self.kind = "Ok"
    THEN Ok_unwrap_or(self, default)
    ELSE Err_unwrap_or(self, default)
unwrap_or_else(self, fn) ==
    IF self.kind = "Ok"
    THEN Ok_unwrap_or_else(self, fn)
    ELSE Err_unwrap_or_else(self, fn)
expect(self, msg) ==
    IF self.kind = "Ok" THEN Ok_expect(self, msg) ELSE Err_expect(self, msg)
map(self, fn) ==
    IF self.kind = "Ok" THEN Ok_map(self, fn) ELSE Err_map(self, fn)
map_err(self, fn) ==
    IF self.kind = "Ok" THEN Ok_map_err(self, fn) ELSE Err_map_err(self, fn)
flat_map(self, fn) ==
    IF self.kind = "Ok" THEN Ok_flat_map(self, fn) ELSE Err_flat_map(self, fn)
or_else(self, fn) ==
    IF self.kind = "Ok" THEN Ok_or_else(self, fn) ELSE Err_or_else(self, fn)
\* Result.bind, the alias of flat_map.
bind(self, fn) == flat_map(self, fn)
inspect(self, fn) ==
    IF self.kind = "Ok" THEN Ok_inspect(self, fn) ELSE Err_inspect(self, fn)
inspect_err(self, fn) ==
    IF self.kind = "Ok"
    THEN Ok_inspect_err(self, fn)
    ELSE Err_inspect_err(self, fn)

(***************************************************************************)
(* Inputs of the Result methods.                                           *)
(***************************************************************************)
Values == {PyInt(n) : n \in (0 - MaxValue)..MaxValue}
Errors == {PyStr("E"), PyStr("Fail")}
Results == {Ok(v) : v \in Values} \cup {Err(e) : e \in Errors}
\* T -> U, E -> F, E -> T, T -> Result and E -> Result callbacks.
ValueFns == {"double", "increment"}
ErrorFns == {"new_error", "err"}
DefaultFns == {"zero", "len"}
BindFns == {"validation", "ok_increment", "too_big"}
RecoverFns == {"recover", "critical"}

(***************************************************************************)
(* Specification SpecResult: a chain of method calls that starts from one  *)
(* constructed Result.  a is the Result the next call is made on, b the    *)
(* receiver of the last call as that call left it, res the last call with  *)
(* its outcome.  A call that returns a Result hands it to the next call    *)
(* (r.map(f).flat_map(g)); after any other call the chain goes on with the *)
(* receiver.                                                               *)
(***************************************************************************)
InitResult ==
    /\ a \in Results
    /\ b = None
    /\ res = NoCall
    /\ nops = 0

Invoke(op, args, out) ==
    /\ nops < MaxChain
    /\ res' = Call(op, a, args, out)
    /\ b' = out.self
    /\ a' = IF IsResult(out.ret) THEN out.ret ELSE out.self
    /\ nops' = nops + 1

IsOk == Invoke("is_ok", <<>>, is_ok(a))
IsErr == Invoke("is_err", <<>>, is_err(a))
Unwrap == Invoke("unwrap", <<>>, unwrap(a))
UnwrapErr == Invoke("unwrap_err", <<>>, unwrap_err(a))
UnwrapOr == Invoke("unwrap_or", <<PyInt(0)>>, unwrap_or(a, PyInt(0)))
UnwrapOrElse ==
    \E fn \in DefaultFns :
        Invoke("unwrap_or_else", <<fn>>, unwrap_or_else(a, fn))
Expect == Invoke("expect", <<"Panic">>, expect(a, "Panic"))
Map == \E fn \in ValueFns : Invoke("map", <<fn>>, map(a, fn))
MapErr == \E fn \in ErrorFns : Invoke("map_err", <<fn>>, map_err(a, fn))
FlatMap == \E fn \in BindFns : Invoke("flat_map", <<fn>>, flat_map(a, fn))
Bind == \E fn \in BindFns : Invoke("bind", <<fn>>, bind(a, fn))
OrElse == \E fn \in RecoverFns : Invoke("or_else", <<fn>>, or_else(a, fn))
Inspect == Invoke("inspect", <<"spy">>, inspect(a, "spy"))
InspectErr == Invoke("inspect_err", <<"spy">>, inspect_err(a, "spy"))

NextResult ==
    \/ IsOk
    \/ IsErr
    \/ Unwrap
    \/ UnwrapErr
    \/ UnwrapOr
    \/ UnwrapOrElse
    \/ Expect
    \/ Map
    \/ MapErr
    \/ FlatMap
    \/ Bind
    \/ OrElse
    \/ Inspect
    \/ InspectErr

SpecResult == InitResult /\ [][NextResult]_vars

\* The methods the claims call combinators.
Combinators ==
    {"map", "map_err", "flat_map", "bind", "or_else", "inspect",
     "inspect_err", "unwrap", "unwrap_err", "unwrap_or", "unwrap_or_else",
     "expect"}

(***************************************************************************)
(* C18.  A Result is always exactly one of the two variants (is_ok() is    *)
(* the negation of is_err()) and is immutable: applying any combinator     *)
(* (map, map_err, flat_map, bind, or_else, inspect, inspect_err, unwrap*,  *)
(* expect) never changes the receiver's variant or payload; a different    *)
(* outcome is always a new Result value.                                   *)
(***************************************************************************)
C18_OneVariantAndImmutable ==
    /\ is_ok(a).ret.b = ~is_err(a).ret.b
    /\ is_ok(a).ret.b = (a.kind = "Ok")
    /\ res.op \in {"is_ok", "is_err"} =>
          /\ b = res.self
          /\ res.out.ret =
                PyBool(res.self.kind =
                           (IF res.op = "is_ok" THEN "Ok" ELSE "Err"))
    /\ res.op \in Combinators => b = res.self

\* map on an Ok returned an Ok with another payload; the receiver still
\* holds the payload it was constructed with.
C18_Witness ==
    /\ res.op = "map"
    /\ res.self.kind = "Ok"
    /\ IsResult(res.out.ret)
    /\ res.out.ret # res.self
    /\ b = res.self

(***************************************************************************)
(* C19.  inspect and inspect_err are no-op pass-throughs on the            *)
(* non-matching variant: Err(e).inspect(f) and Ok(v).inspect_err(f) never  *)
(* invoke f, raise nothing, and return a Result equal to the receiver.     *)
(***************************************************************************)
C19_InspectPassThrough ==
    \/ res.op = "inspect" /\ res.self.kind = "Err"
    \/ res.op = "inspect_err" /\ res.self.kind = "Ok"
    => /\ res.out.calls = <<>>
       /\ ~IsRaised(res.out.ret)
       /\ res.out.ret = res.self

(***************************************************************************)
(* C20.  inspect and inspect_err invoke their callback on the matching     *)
(* variant: Ok(v).inspect(f) calls f exactly once with v and returns       *)
(* Ok(v); Err(e).inspect_err(f) calls f exactly once with e and returns    *)
(* Err(e).                                                                 *)
(***************************************************************************)
C20_InspectInvokesCallback ==
    /\ res.op = "inspect" /\ res.self.kind = "Ok" =>
          /\ res.out.calls = <<<<res.args[1], res.self.value>>>>
          /\ res.out.ret = res.self
    /\ res.op = "inspect_err" /\ res.self.kind = "Err" =>
          /\ res.out.calls = <<<<res.args[1], res.self.error>>>>
          /\ res.out.ret = res.self

\* The one invocation of the callback of the recorded call on payload x.
Once(x) == <<<<res.args[1], x>>>>

(***************************************************************************)
(* C21.  Short-circuiting: Err(e).flat_map(f) (and its alias bind) returns *)
(* Err(e) without invoking f, and Ok(v).or_else(f) returns Ok(v) without   *)
(* invoking f; on the matching variant the callback is invoked exactly     *)
(* once and its returned Result is the outcome (Ok(v).flat_map(f) == f(v), *)
(* Err(e).or_else(f) == f(e)).                                             *)
(***************************************************************************)
C21_ShortCircuit ==
    /\ res.op \in {"flat_map", "bind"} /\ res.self.kind = "Err" =>
          /\ res.out.ret = res.self
          /\ res.out.calls = <<>>
    /\ res.op = "or_else" /\ res.self.kind = "Ok" =>
          /\ res.out.ret = res.self
          /\ res.out.calls = <<>>
    /\ res.op \in {"flat_map", "bind"} /\ res.self.kind = "Ok" =>
          /\ res.out.ret = Apply(res.args[1], res.self.value)
          /\ res.out.calls = Once(res.self.value)
    /\ res.op = "or_else" /\ res.self.kind = "Err" =>
          /\ res.out.ret = Apply(res.args[1], res.self.error)
          /\ res.out.calls = Once(res.self.error)

\* bind on an Err that an earlier flat_map produced was skipped.
C21_Witness ==
    /\ res.op = "bind"
    /\ res.self = Err(PyStr("Too big"))
    /\ res.out.ret = res.self
    /\ res.out.calls = <<>>

(***************************************************************************)
(* C22.  map transforms only the success channel and map_err only the      *)
(* error channel: Ok(v).map(f) == Ok(f(v)) and Err(e).map(f) == Err(e)     *)
(* with f not invoked; Err(e).map_err(g) == Err(g(e)) and                  *)
(* Ok(v).map_err(g) == Ok(v) with g not invoked.                           *)
(***************************************************************************)
C22_MapChannels ==
    /\ res.op = "map" /\ res.self.kind = "Ok" =>
          /\ res.out.ret = Ok(Apply(res.args[1], res.self.value))
          /\ res.out.calls = Once(res.self.value)
    /\ res.op = "map" /\ res.self.kind = "Err" =>
          /\ res.out.ret = res.self
          /\ res.out.calls = <<>>
    /\ res.op = "map_err" /\ res.self.kind = "Err" =>
          /\ res.out.ret = Err(Apply(res.args[1], res.self.error))
          /\ res.out.calls = Once(res.self.error)
    /\ res.op = "map_err" /\ res.self.kind = "Ok" =>
          /\ res.out.ret = res.self
          /\ res.out.calls = <<>>

\* map_err replaced the error of an Err: Err("E") became Err("New error").
C22_Witness ==
    /\ res.op = "map_err"
    /\ res.self = Err(PyStr("E"))
    /\ res.args[1] = "new_error"
    /\ res.out.ret = Err(PyStr("New error"))

(***************************************************************************)
(* C23.  In any chain of map / flat_map / map_err steps starting from      *)
(* Ok(v), the final result is the first failure: once some flat_map step   *)
(* returns Err(e), every later map and flat_map step is skipped (its       *)
(* function is not invoked) and the chain ends in Err(e) unless a later    *)
(* map_err / or_else acts on it; if no step fails the chain ends in Ok of  *)
(* the composed value (Ok(v) -> x*2 -> validation gives Ok(2v) for v > 0   *)
(* and Err("Negative") otherwise).                                         *)
(***************************************************************************)
\* One step of a chain: a is the Result the chain has reached, res' the
\* call made on it.
C23_Step ==
    /\ res'.op \in Combinators => res'.self = a
    /\ a.kind = "Err" /\ res'.op \in {"map", "flat_map", "bind"} =>
          /\ res'.out.calls = <<>>
          /\ res'.out.ret = a
          /\ a' = a
    /\ a.kind = "Err" /\ res'.op = "map_err" =>
          a' = Err(Apply(res'.args[1], a.error))
    /\ a.kind = "Err" /\ res'.op = "or_else" =>
          a' = Apply(res'.args[1], a.error)
    /\ a.kind = "Ok" /\ res'.op = "map" =>
          a' = Ok(Apply(res'.args[1], a.value))
    /\ a.kind = "Ok" /\ res'.op \in {"flat_map", "bind"} =>
          a' = Apply(res'.args[1], a.value)
    /\ a.kind = "Ok" /\ res'.op \in {"map_err", "or_else"} => a' = a
    /\ /\ res.op = "map" /\ res.args = <<"double">> /\ res.self.kind = "Ok"
       /\ res'.op = "flat_map" /\ res'.args = <<"validation">>
       => a' = IF res.self.value.n > 0
               THEN Ok(PyInt(2 * res.self.value.n))
               ELSE Err(PyStr("Negative"))

C23_FirstFailureWins == [][C23_Step]_vars

\* The third step of Ok(v).map(..).flat_map(validation).map(..) was skipped:
\* the chain ended in the Err("Negative") of its second step.
C23_Witness ==
    /\ nops = 3
    /\ res.op = "map"
    /\ res.self = Err(PyStr("Negative"))
    /\ res.out.calls = <<>>
    /\ a = Err(PyStr("Negative"))

(***************************************************************************)
(* C24.  Extracting the wrong variant is a fatal error and the right       *)
(* variant returns the payload: Ok(v).unwrap() and Ok(v).expect(m) return  *)
(* v while Err(e).unwrap() and Err(e).expect(m) raise with e's             *)
(* representation in the message (expect prefixing m); dually              *)
(* Err(e).unwrap_err() returns e and Ok(v).unwrap_err() raises.            *)
(***************************************************************************)
C24_Extraction ==
    /\ res.op \in {"unwrap", "expect"} /\ res.self.kind = "Ok" =>
          res.out.ret = res.self.value
    /\ res.op = "unwrap" /\ res.self.kind = "Err" =>
          /\ IsRaised(res.out.ret)
          /\ res.out.ret.message =
                "Called unwrap on Err value: " \o StrOf(res.self.error)
    /\ res.op = "expect" /\ res.self.kind = "Err" =>
          /\ IsRaised(res.out.ret)
          /\ res.out.ret.message =
                res.args[1] \o ": " \o StrOf(res.self.error)
    /\ res.op = "unwrap_err" /\ res.self.kind = "Err" =>
          res.out.ret = res.self.error
    /\ res.op = "unwrap_err" /\ res.self.kind = "Ok" =>
          IsRaised(res.out.ret)
    /\ res.op \in {"unwrap", "expect", "unwrap_err"} =>
          res.out.calls = <<>>

\* Err("Fail").expect("Panic") raised ValueError("Panic: Fail").
C24_Witness ==
    /\ res.op = "expect"
    /\ res.self = Err(PyStr("Fail"))
    /\ res.out.ret = ValueError("Panic: Fail")

(***************************************************************************)
(* C25.  Safe extraction never fails: Ok(v).unwrap_or(d) and               *)
(* Ok(v).unwrap_or_else(f) return v without invoking f; Err(e).unwrap_or(d)*)
(* returns d and Err(e).unwrap_or_else(f) returns f(e), invoking f exactly *)
(* once with the error (Err("Fail").unwrap_or_else(len) == 4).             *)
(***************************************************************************)
C25_SafeExtraction ==
    /\ res.op \in {"unwrap_or", "unwrap_or_else"} =>
          ~IsRaised(res.out.ret)
    /\ res.op \in {"unwrap_or", "unwrap_or_else"} /\ res.self.kind = "Ok" =>
          /\ res.out.ret = res.self.value
          /\ res.out.calls = <<>>
    /\ res.op = "unwrap_or" /\ res.self.kind = "Err" =>
          /\ res.out.ret = res.args[1]
          /\ res.out.calls = <<>>
    /\ res.op = "unwrap_or_else" /\ res.self.kind = "Err" =>
          /\ res.out.ret = Apply(res.args[1], res.self.error)
          /\ res.out.calls = Once(res.self.error)

\* Err("Fail").unwrap_or_else(len) returned 4.
C25_Witness ==
    /\ res.op = "unwrap_or_else"
    /\ res.self = Err(PyStr("Fail"))
    /\ res.args = <<"len">>
    /\ res.out.ret = PyInt(4)

(***************************************************************************)
(* The detection adapter:                                                  *)
(*   src/src/detection_platform/infrastructure/adapters/detection/         *)
(*       yolo_adapter.py (YoloAdapter.detect), mappers.py                  *)
(*   src/src/shared_kernel/detection_core/domain/detection.py (Detection)  *)
(*                                                                         *)
(* The external model is an input: predict either raises or returns a list *)
(* of results, each with boxes None or a list of boxes (xyxy, cls, conf).  *)
(***************************************************************************)
\* Largest number of boxes the model reports in one result.
MaxBoxes == 2

\* A Python list, and the frames handed to detect.
List(items) == [kind |-> "list", items |-> items]
NdArray == [kind |-> "ndarray"]
NotAnArray == [kind |-> "str"]

RuntimeError(message) == [kind |-> "RuntimeError", message |-> message]
IsException(v) ==
    v.kind \in {"ValueError", "AttributeError", "RuntimeError"}

\* str(e) of an exception, as {e!s} formats it.
ExcStr(e) ==
    IF e.kind = "AttributeError"
    THEN "type object '" \o e.obj \o "' has no attribute '" \o e.name \o "'"
    ELSE e.message

\* YoloClassMapper.map_id: the SemanticClass of a model class id.
map_id(class_id) ==
    CASE class_id = 0 -> "pedastrian"
      [] class_id = 1 -> "bicycle"
      [] class_id = 2 -> "car"
      [] class_id = 3 -> "motorcycle"
      [] class_id = 4 -> "bus"
      [] class_id = 5 -> "truck"
      [] OTHER -> "unknown"

\* Detection(bbox, class_label, confidence, track_id) with its __post_init__.
Detection(bbox, class_label, confidence, track_id) ==
    IF ~(RLe(Zero, confidence) /\ RLe(confidence, One))
    THEN ValueError(<<"Confidence ", confidence,
                      " must be between 0.0 and 1.0">>)
    ELSE [kind |-> "Detection", bbox |-> bbox, class_label |-> class_label,
          confidence |-> confidence, track_id |-> track_id]

\* The attribute `name` of the class BoundingBox, called with x1, y1, x2, y2:
\* the class defines the classmethod from_coordinates and no other factory.
BoundingBox_classmethod(name, x1, y1, x2, y2) ==
    IF name = "from_coordinates"
    THEN from_coordinates(<<x1, y1, x2, y2>>)
    ELSE AttributeError("BoundingBox", name)

\* The elements of a Python sequence.
Elements(seq) == {seq[i] : i \in DOMAIN seq}

\* The body of `for box in boxes_iter` of YoloAdapter.detect: the list of
\* detections, or the exception that left the loop.
RECURSIVE BoxLoop(_, _, _)
BoxLoop(boxes, filter_classes, domain_detections) ==
    IF boxes = <<>>
    THEN List(domain_detections)
    ELSE LET box == Head(boxes)
             coords == box.xyxy
             cls_id == box.cls
             conf == box.conf
             semantic_label == map_id(cls_id)
         IN  IF /\ filter_classes.kind = "list"
                /\ filter_classes.items # <<>>
                /\ semantic_label \notin Elements(filter_classes.items)
             THEN BoxLoop(Tail(boxes), filter_classes, domain_detections)
             ELSE LET bbox_result ==
                          BoundingBox_classmethod("create", coords[1],
                                                  coords[2], coords[3],
                                                  coords[4])
                  IN  IF IsException(bbox_result)
                      THEN bbox_result
                      ELSE IF is_err(bbox_result).ret.b
                      THEN BoxLoop(Tail(boxes), filter_classes,
                                   domain_detections)
                      ELSE LET detection ==
                                   Detection(unwrap(bbox_result).ret,
                                             semantic_label, conf, None)
                           IN  IF IsException(detection)
                               THEN detection
                               ELSE BoxLoop(Tail(boxes), filter_classes,
                                            Append(domain_detections,
                                                   detection))

\* The body of `for result in results`.
RECURSIVE ResultLoop(_, _, _)
ResultLoop(results, filter_classes, domain_detections) ==
    IF results = <<>>
    THEN List(domain_detections)
    ELSE IF Head(results).boxes.kind = "None"
    THEN ResultLoop(Tail(results), filter_classes, domain_detections)
    ELSE LET inner == BoxLoop(Head(results).boxes.items, filter_classes,
                              domain_detections)
         IN  IF IsException(inner)
             THEN inner
             ELSE ResultLoop(Tail(results), filter_classes, inner.items)

\* YoloAdapter.detect(frame, filter_classes); prediction is what
\* self._model.predict does on the frame (a list of results or a raise).
detect(frame, filter_classes, prediction) ==
    IF frame.kind # "ndarray"
    THEN Err(PyStr("YoloAdapter requires numpy array as frame input"))
    ELSE LET body == IF IsException(prediction)
                     THEN prediction
                     ELSE ResultLoop(prediction.items, filter_classes, <<>>)
         IN  IF IsException(body)
             THEN Err(PyStr("Detection infrastructure error: "
                            \o ExcStr(body)))
             ELSE Ok(body)

(***************************************************************************)
(* Inputs of detect.                                                       *)
(***************************************************************************)
\* xyxy of a reported box: a valid box, one with x1 = x2, one with y1 < 0.
ReportedCoords ==
    {<<R(0), R(0), R(1), R(1)>>, <<R(1), R(0), R(1), R(2)>>,
     <<R(0), R(0 - 1), R(2), R(1)>>}
\* Class ids: pedestrian, car, and an id the mapper does not know.
ReportedClasses == {0, 2, 9}
ReportedBoxes ==
    {[xyxy |-> c, cls |-> k, conf |-> <<9, 10>>] :
        c \in ReportedCoords, k \in ReportedClasses}
RECURSIVE SeqsUpTo(_, _)
SeqsUpTo(S, n) ==
    IF n = 0
    THEN {<<>>}
    ELSE SeqsUpTo(S, n - 1)
             \cup {Append(q, x) : q \in {t \in SeqsUpTo(S, n - 1) :
                                            Len(t) = n - 1}, x \in S}
YoloResults ==
    {[boxes |-> None]}
        \cup {[boxes |-> List(q)] : q \in SeqsUpTo(ReportedBoxes, MaxBoxes)}
Predictions ==
    {RuntimeError("CUDA out of memory")}
        \cup {List(<<r>>) : r \in YoloResults}
        \cup {List(<<[boxes |-> None], r>>) : r \in YoloResults}
Frames == {NdArray, NotAnArray}
Filters == {None, List(<<>>), List(<<"car">>)}

(***************************************************************************)
(* Specification SpecDetect: one call of detect (the adapter keeps no state *)
(* between calls).  res is the call with the Result it returned; a and b   *)
(* are not used.                                                           *)
(***************************************************************************)
InitDetect ==
    /\ a = None
    /\ b = None
    /\ res = NoCall
    /\ nops = 0

Detect ==
    /\ res = NoCall
    /\ \E frame \in Frames, filter_classes \in Filters,
          prediction \in Predictions :
          res' = Call("detect", None, <<frame, filter_classes, prediction>>,
                      detect(frame, filter_classes, prediction))
    /\ UNCHANGED <<a, b, nops>>

NextDetect == Detect

SpecDetect == InitDetect /\ [][NextDetect]_vars

\* The boxes of a prediction, in the order the model reports them.
RECURSIVE AllBoxes(_)
AllBoxes(results) ==
    IF results = <<>>
    THEN <<>>
    ELSE (IF Head(results).boxes.kind = "None"
          THEN <<>>
          ELSE Head(results).boxes.items) \o AllBoxes(Tail(results))

\* A reported box passes the class filter (None and [] filter nothing).
PassesFilter(box, filter_classes) ==
    \/ filter_classes.kind = "None"
    \/ filter_classes.items = <<>>
    \/ map_id(box.cls) \in Elements(filter_classes.items)

\* One Detection for each box that passes the filter and is valid, in order.
RECURSIVE ExpectedDetections(_, _)
ExpectedDetections(boxes, filter_classes) ==
    IF boxes = <<>>
    THEN <<>>
    ELSE LET box == Head(boxes)
             rest == ExpectedDetections(Tail(boxes), filter_classes)
         IN  IF PassesFilter(box, filter_classes) /\ ValidCoords(box.xyxy)
             THEN <<[kind |-> "Detection",
                     bbox |-> Instance(box.xyxy[1], box.xyxy[2],
                                       box.xyxy[3], box.xyxy[4]),
                     class_label |-> map_id(box.cls),
                     confidence |-> box.conf,
                     track_id |-> None]>> \o rest
             ELSE rest

(***************************************************************************)
(* C26.  YoloAdapter.detect never raises and always returns a Result: a    *)
(* non-array frame gives Err; for an array frame on which the model        *)
(* reports boxes it returns Ok with exactly one Detection, in model order, *)
(* for each reported box that passes the class filter and whose            *)
(* coordinates form a valid BoundingBox, silently skipping boxes with      *)
(* invalid coordinates; Err is returned only when the model /              *)
(* infrastructure itself fails.                                            *)
(***************************************************************************)
C26_DetectReturnsDetections ==
    res.op = "detect" =>
        /\ IsResult(res.out)
        /\ res.args[1].kind # "ndarray" => res.out.kind = "Err"
        /\ res.args[1].kind = "ndarray" /\ ~IsException(res.args[3]) =>
              res.out =
                  Ok(List(ExpectedDetections(AllBoxes(res.args[3].items),
                                             res.args[2])))
        /\ res.out.kind = "Err" =>
              \/ res.args[1].kind # "ndarray"
              \/ IsException(res.args[3])

(***************************************************************************)
(* The frame loop of run_detection:                                        *)
(*   src/src/detection_platform/presentation/cli/main.py, lines 29-58.     *)
(*                                                                         *)
(* Specification SpecLoop.  a is the state of the running function (where  *)
(* it is, the result of the current frame, what it has printed, shown and  *)
(* released so far), b the frame read last, res the last call, nops the    *)
(* number of frames read.  The video, the model's predictions and the keys *)
(* pressed are inputs.                                                     *)
(***************************************************************************)
\* Most frames the video source delivers before a read fails.
MaxFrames == 3
\* ord('q')
OrdQ == 113

\* cv2.waitKey(1): no key (-1), 'q', 'a'.
Keys == {0 - 1, OrdQ, 97}
\* What the model does on a frame: it fails, reports nothing, reports a car.
LoopPredictions ==
    {RuntimeError("CUDA out of memory"),
     List(<<[boxes |-> None]>>),
     List(<<[boxes |->
               List(<<[xyxy |-> <<R(0), R(0), R(1), R(1)>>, cls |-> 2,
                       conf |-> <<9, 10>>]>>)]>>)}

\* DetectionService.detect_objects(frame): hands the frame to the detector.
detect_objects(frame, filter_classes, prediction) ==
    detect(frame, filter_classes, prediction)

\* Lines 36-50 calling unwrap before looking at is_ok.
ResultBranch_unwrap_first(result, reported) ==
    LET detections == unwrap(result).ret
    IN  IF IsRaised(detections)
        THEN [raised |-> TRUE, drawn |-> 0, reported |-> reported]
        ELSE [raised |-> FALSE, drawn |-> Len(detections.items),
              reported |-> reported]

\* Lines 36-50: the branch on the result of one frame.  drawn counts the
\* rectangles put on the frame, reported is what has been printed so far,
\* raised tells that unwrap / unwrap_err raised.
ResultBranch(result, reported) ==
    IF is_ok(result).ret.b
    THEN LET detections == unwrap(result).ret
         IN  IF IsRaised(detections)
             THEN [raised |-> TRUE, drawn |-> 0, reported |-> reported]
             ELSE [raised |-> FALSE, drawn |-> Len(detections.items),
                   reported |-> reported]
    ELSE LET error == unwrap_err(result).ret
         IN  IF IsRaised(error)
             THEN [raised |-> TRUE, drawn |-> 0, reported |-> reported]
             ELSE [raised |-> FALSE, drawn |-> 0,
                   reported |->
                       Append(reported, "Detection error: " \o StrOf(error))]

InitLoop ==
    /\ a = [kind |-> "loop", pc |-> "read", result |-> None,
            reported |-> <<>>, shown |-> 0,
            drawn |-> 0, released |-> 0, destroyed |-> 0]
    /\ b = None
    /\ res = NoCall
    /\ nops = 0

\* Lines 57-58, reached by either break.
Cleanup(state) ==
    [state EXCEPT !.pc = "done", !.released = @ + 1, !.destroyed = @ + 1]

\* ret, frame = cap.read(); if not ret: break
ReadFrame ==
    /\ a.pc = "read"
    /\ \E ret \in BOOLEAN :
          /\ ret => nops < MaxFrames
          /\ res' = Call("read", None, <<>>, PyBool(ret))
          /\ IF ret
             THEN /\ a' = [a EXCEPT !.pc = "detect"]
                  /\ b' = NdArray
                  /\ nops' = nops + 1
             ELSE /\ a' = Cleanup(a)
                  /\ UNCHANGED <<b, nops>>

\* result = service.detect_objects(frame)
DetectObjects ==
    /\ a.pc = "detect"
    /\ \E prediction \in LoopPredictions :
          LET result == detect_objects(b, None, prediction)
          IN  /\ a' = [a EXCEPT !.pc = "branch", !.result = result]
              /\ res' = Call("detect_objects", None, <<b, prediction>>,
                             result)
    /\ UNCHANGED <<b, nops>>

\* if result.is_ok(): ... else: print(...)
Report ==
    /\ a.pc = "branch"
    /\ LET out == ResultBranch(a.result, a.reported)
       IN  /\ a' = IF out.raised
                   THEN [a EXCEPT !.pc = "raised"]
                   ELSE [a EXCEPT !.pc = "show",
                                  !.drawn = @ + out.drawn,
                                  !.reported = out.reported]
           /\ res' = Call("branch", a.result, <<>>, PyBool(out.raised))
    /\ UNCHANGED <<b, nops>>

\* cv2.imshow('Detection Platform CLI', frame)
ShowFrame ==
    /\ a.pc = "show"
    /\ a' = [a EXCEPT !.pc = "waitkey", !.shown = @ + 1]
    /\ res' = Call("imshow", None, <<b>>, None)
    /\ UNCHANGED <<b, nops>>

\* if cv2.waitKey(1) & 0xFF == ord('q'): break
WaitKey ==
    /\ a.pc = "waitkey"
    /\ \E key \in Keys :
          /\ res' = Call("waitKey", None, <<>>, [kind |-> "int", n |-> key])
          /\ a' = IF key % 256 = OrdQ
                  THEN Cleanup(a)
                  ELSE [a EXCEPT !.pc = "read"]
    /\ UNCHANGED <<b, nops>>

NextLoop ==
    \/ ReadFrame
    \/ DetectObjects
    \/ Report
    \/ ShowFrame
    \/ WaitKey

SpecLoop == InitLoop /\ [][NextLoop]_vars

(***************************************************************************)
(* C27.  In run_detection's frame loop, a failed detection for one frame   *)
(* does not end the loop: on Err the error is reported via unwrap_err      *)
(* (unwrap is only called after is_ok() is true, so it never raises), the  *)
(* frame is still shown and the next frame is read; the loop ends only     *)
(* when a frame read fails or 'q' is pressed, and after it ends the        *)
(* capture is released and the windows destroyed exactly once.             *)
(***************************************************************************)
\* One step of the loop, from the state before it to the state after it.
C27_Step ==
    /\ a'.pc # "raised"
    /\ a.pc = "branch" /\ a.result.kind = "Err" =>
          /\ a'.pc = "show"
          /\ a'.reported =
                Append(a.reported,
                       "Detection error: " \o StrOf(a.result.error))
    /\ a.pc = "branch" /\ a.result.kind = "Ok" =>
          /\ a'.pc = "show"
          /\ a'.reported = a.reported
          /\ a'.drawn = a.drawn + Len(a.result.value.items)
    /\ a.pc = "show" =>
          /\ a'.pc = "waitkey"
          /\ a'.shown = a.shown + 1
    /\ a.pc = "waitkey" =>
          IF res'.out.n = OrdQ THEN a'.pc = "done" ELSE a'.pc = "read"
    /\ a.pc = "read" =>
          IF res'.out.b
          THEN a'.pc = "detect" /\ nops' = nops + 1
          ELSE a'.pc = "done"
    /\ a'.pc = "done" =>
          \/ a.pc = "read" /\ ~res'.out.b
          \/ a.pc = "waitkey" /\ res'.out.n = OrdQ
    /\ a'.pc \in {"read", "done"} => a'.shown = nops'
    /\ IF a'.pc = "done"
       THEN a'.released = 1 /\ a'.destroyed = 1
       ELSE a'.released = 0 /\ a'.destroyed = 0

C27_LoopSurvivesFailedDetection == [][C27_Step]_vars

\* A second frame has been read after the first one's detection failed, was
\* reported and the frame was shown.
C27_Witness ==
    /\ a.kind = "loop"
    /\ a.pc = "detect"
    /\ nops = 2
    /\ Len(a.reported) = 1
    /\ a.shown = 1

=============================================================================
